---- MODULE Spec2Model ----
(***************************************************************************)
(* Model of server.py: the single-slot model manager of the Qwen3-TTS      *)
(* server (get_or_load_model / unload_model / inactivity_monitor) and the  *)
(* three request handlers that use it.                                     *)
(*                                                                         *)
(* Scheduling.  uvicorn.run(app) runs one process with one asyncio event   *)
(* loop.  The handlers are `async def` coroutines whose bodies contain no  *)
(* `await`; get_or_load_model and unload_model are plain functions; the    *)
(* only `await` of the module is asyncio.sleep(10) in inactivity_monitor.  *)
(* A coroutine therefore keeps the event loop from the moment it is        *)
(* resumed until it returns, raises or sleeps.  The model splits a handler *)
(* into its steps; a handler that has been resumed and has not returned   *)
(* holds the event loop (LoopFree is false), and a sweep tick is one step. *)
(* The wall clock advances independently of who holds the loop.            *)
(***************************************************************************)
EXTENDS Integers, Sequences, FiniteSets, TLC

\* ------------------------------------------------------------------ bounds
NumHandlers == 2        \* requests that can be in flight at once
MaxLoads    == 2        \* loader invocations that return a handle, in one run
MaxTime     == 20       \* the clock stops advancing here

\* --------------------------------------------------------------- constants
SLEEP          == 10    \* asyncio.sleep(10), seconds
UNLOAD_TIMEOUT == 10    \* config["server"]["unload_timeout"], seconds (a
                        \* value of config.yaml; one sleep period here)

\* A resource key f"{size}-{kind}" is the pair <<size, kind>>.
Key(size, kind) == <<size, kind>>

DesignKey == Key("1.7b", "design")           \* the literal "1.7b-design"

Sizes == {"1.7b", "9b"}                      \* model_size form values

\* The configurations of config["models"] the model starts from: the full
\* set of 1.7b variants, and one that lacks the design variant.
Configs ==
    { {Key("1.7b", "design"), Key("1.7b", "custom"), Key("1.7b", "clone")},
      {Key("1.7b", "custom"), Key("1.7b", "clone")} }

None     == <<>>        \* Python None, for a key
NoHandle == 0           \* Python None, for a handle; handles are 1, 2, ...

Handlers == 1 .. NumHandlers

VARIABLES
    MODELS,             \* config["models"], the recognised keys
    active_model,       \* global: the resident handle, or NoHandle
    active_model_name,  \* global: the resident key, or None
    last_access_time,   \* global
    now,                \* time.time()
    pc,                 \* per handler: where its coroutine stands
    req,                \* per handler: [endpoint, size] of its request
    model,              \* per handler: the local `model`
    resp,               \* per handler: how the request was answered
    entry,              \* per handler: the slot when get_or_load_model was called
    trace,              \* per handler: dispose/load events of its get_or_load_model call
    mon,                \* inactivity_monitor: "sleep", "due" (the sleep has
                        \* elapsed) or "dead" (the task has ended)
    last,               \* the latest event of the slot: what the last sweep
                        \* tick did, or the key of the last loader call if it
                        \* failed
    tempFiles,          \* handlers whose staged reference audio is on disk
    orphans,            \* TRUE once a staged file has outlived its handler
    alive,              \* <<handle, key>> of the handles loaded and not yet released
    disposals,          \* the handles unload_model has released, in order
    nextHandle          \* the next handle the loader returns

vars == << MODELS, active_model, active_model_name, last_access_time, now,
           pc, req, model, resp, entry, trace, mon, last,
           tempFiles, orphans, alive, disposals, nextHandle >>

slot == << active_model_name, active_model, last_access_time >>

NoReq   == [endpoint |-> "none", size |-> "none"]
NoEntry == [name |-> None, model |-> NoHandle, time |-> 0, last |-> << >>]

NoEvent == << >>

Init ==
    /\ MODELS \in Configs
    /\ active_model = NoHandle
    /\ active_model_name = None
    /\ last_access_time = 0
    /\ now = 0
    /\ pc = [h \in Handlers |-> "idle"]
    /\ req = [h \in Handlers |-> NoReq]
    /\ model = [h \in Handlers |-> NoHandle]
    /\ resp = [h \in Handlers |-> "none"]
    /\ entry = [h \in Handlers |-> NoEntry]
    /\ trace = [h \in Handlers |-> << >>]
    /\ mon = "sleep"
    /\ last = NoEvent
    /\ tempFiles = {}
    /\ orphans = FALSE
    /\ alive = {}
    /\ disposals = << >>
    /\ nextHandle = 1

\* The key a request maps to.
KeyOf(r) ==
    IF r.endpoint = "design" THEN DesignKey ELSE Key(r.size, r.endpoint)

Requests ==
    { [endpoint |-> "design", size |-> "none"] } \cup
    { [endpoint |-> e, size |-> s] : e \in {"custom", "clone"}, s \in Sizes }

UnloadOutcomes == {"ok", "early", "late"}
Outcomes       == {"ok", "fail"}
StageOutcomes  == {"ok", "fail", "nofile"}

\* ------------------------------------------------------------ unload_model
\* o = "ok":    the body runs to its end.
\* o = "early": a statement before `del active_model` raises (the logging
\*              and torch.cuda.memory_* calls of lines 56-62).
\* o = "late":  a statement after `active_model_name = None` raises
\*              (gc.collect, torch.cuda.empty_cache/synchronize, logging).
\* Dropping the slot's reference releases the handle: no handler keeps a
\* local reference across a point where another coroutine can run.
\* Faulty variant: the key is not cleared with the handle.
unload_model_KeepsName(o) ==
    IF active_model # NoHandle /\ o # "early"
    THEN /\ active_model' = NoHandle
         /\ alive' = { a \in alive : a[1] # active_model }
         /\ disposals' = Append(disposals, active_model)
         /\ UNCHANGED active_model_name
    ELSE UNCHANGED << active_model, active_model_name, alive, disposals >>

\* Faulty variant: the slot is cleared but the handle is not released.
unload_model_KeepsReference(o) ==
    IF active_model # NoHandle /\ o # "early"
    THEN /\ active_model' = NoHandle
         /\ active_model_name' = None
         /\ UNCHANGED << alive, disposals >>
    ELSE UNCHANGED << active_model, active_model_name, alive, disposals >>

unload_model(o) ==
    IF active_model # NoHandle /\ o # "early"
    THEN /\ active_model' = NoHandle
         /\ active_model_name' = None
         /\ alive' = { a \in alive : a[1] # active_model }
         /\ disposals' = Append(disposals, active_model)
    ELSE UNCHANGED << active_model, active_model_name, alive, disposals >>

\* unload_model raised.
UnloadRaises(o) == active_model # NoHandle /\ o # "ok"

\* ------------------------------------------------------------- event loop
\* No coroutine is between its resumption and its return: the handlers
\* have no `await`, so a resumed handler runs to its end before any other
\* handler or the inactivity monitor is resumed.
\* Faulty variant: handlers declared `def`, which FastAPI runs in a thread
\* pool, concurrently with each other and with the event loop.
LoopFree_Threaded == TRUE

LoopFree == \A h \in Handlers : pc[h] \in {"idle", "ready"}

\* -------------------------------------------------------- request handlers
\* A request arrives; FastAPI parses the form and schedules the handler.
\* Requests are anonymous: a new one takes the first free handler.
Accept(h, r) ==
    /\ pc[h] = "idle"
    /\ \A g \in Handlers : g < h => pc[g] # "idle"
    /\ pc' = [pc EXCEPT ![h] = "ready"]
    /\ req' = [req EXCEPT ![h] = r]
    /\ UNCHANGED << MODELS, active_model, active_model_name, last_access_time,
                    now, model, resp, entry, trace, mon, last, tempFiles,
                    orphans, alive, disposals, nextHandle >>

\* custom_voice / voice_clone: `if model_name not in MODELS: raise 400`.
\* voice_design has no such check.
\* Faulty variant: voice_clone does not validate its key.
Rejected_CustomOnly(r) == r.endpoint = "custom" /\ KeyOf(r) \notin MODELS

Rejected(r) == r.endpoint \in {"custom", "clone"} /\ KeyOf(r) \notin MODELS

\* get_or_load_model, lines 96-101: the hit test and the decision to
\* unload; the value is where the call continues.
\* Faulty variant: the other resident is not unloaded before the load.
EnterGetOrLoad_NoUnload(k) ==
    IF active_model_name = k /\ active_model # NoHandle THEN "hit" ELSE "load"

\* Faulty variant: the resident is never reused.
EnterGetOrLoad_NeverHit(k) ==
    IF active_model # NoHandle THEN "unload" ELSE "load"

EnterGetOrLoad(k) ==
    IF active_model_name = k /\ active_model # NoHandle THEN "hit"
    ELSE IF active_model # NoHandle THEN "unload"
    ELSE "load"

\* get_or_load_model, line 94: last_access_time = time.time(), the first
\* statement of every call.
\* Faulty variant: the elapsed time is stored for the time.
Touch_Elapsed == last_access_time' = now - last_access_time

Touch == last_access_time' = now

\* Where a handler goes on once get_or_load_model has returned a handle.
AfterAcquire(r) == IF r.endpoint = "clone" THEN "stage" ELSE "invoke"

\* The event loop resumes the handler: key validation, then the call of
\* get_or_load_model up to its first slow step: the timestamp write of
\* line 94 and the hit test.  MaxLoads caps the handles of one run: a
\* request that would load is not started once they are used.
Start(h) ==
    /\ LoopFree
    /\ pc[h] = "ready"
    /\ \/ Rejected(req[h])
       \/ EnterGetOrLoad(KeyOf(req[h])) = "hit"
       \/ nextHandle <= MaxLoads
    /\ IF Rejected(req[h])
       THEN /\ resp' = [resp EXCEPT ![h] = "400"]
            /\ pc' = [pc EXCEPT ![h] = "returned"]
            /\ UNCHANGED << last_access_time, model, entry >>
       ELSE /\ Touch
            /\ entry' = [entry EXCEPT ![h] =
                            [name |-> active_model_name, model |-> active_model,
                             time |-> last_access_time, last |-> last]]
            /\ LET to == EnterGetOrLoad(KeyOf(req[h])) IN
               IF to = "hit"
               THEN /\ model' = [model EXCEPT ![h] = active_model]
                    /\ pc' = [pc EXCEPT ![h] = AfterAcquire(req[h])]
               ELSE /\ pc' = [pc EXCEPT ![h] = to]
                    /\ UNCHANGED model
            /\ UNCHANGED resp
    /\ UNCHANGED << MODELS, active_model, active_model_name, now, req, trace,
                    mon, last, tempFiles, orphans, alive,
                    disposals, nextHandle >>

\* get_or_load_model, lines 99-101: unload_model() for the other resident.
\* The call is outside the try of line 104 and the call of
\* get_or_load_model is outside the handlers' try: an exception leaves the
\* handler unhandled.
Unload(h, o) ==
    /\ pc[h] = "unload"
    /\ unload_model(o)
    /\ trace' = [trace EXCEPT ![h] =
                    IF o = "early" THEN @ ELSE Append(@, <<"dispose", active_model>>)]
    /\ IF UnloadRaises(o)
       THEN /\ resp' = [resp EXCEPT ![h] = "unhandled"]
            /\ pc' = [pc EXCEPT ![h] = "returned"]
       ELSE /\ pc' = [pc EXCEPT ![h] = "load"]
            /\ UNCHANGED resp
    /\ UNCHANGED << MODELS, last_access_time, now, req, model, entry, mon,
                    last, tempFiles, orphans, nextHandle >>

\* get_or_load_model, lines 112-113: the slot is populated.
LoadSuccess(k, hd) ==
    /\ active_model' = hd
    /\ active_model_name' = k
    /\ alive' = alive \cup {<<hd, k>>}

\* get_or_load_model, lines 116-118: the exception is logged and re-raised.
\* Faulty variant: active_model_name is assigned before the loader call.
LoadFailure_NameSetFirst(k) ==
    /\ active_model_name' = k
    /\ UNCHANGED << active_model, alive >>

LoadFailure(k) ==
    UNCHANGED << active_model, active_model_name, alive >>

\* get_or_load_model, lines 103-118.  MODELS[target_model_name] raises
\* KeyError for an unknown key before the loader is called; a loader
\* failure and the KeyError are logged and re-raised.
Load(h, o) ==
    /\ pc[h] = "load"
    /\ LET k == KeyOf(req[h]) IN
       IF k \in MODELS /\ o = "ok"
       THEN /\ LoadSuccess(k, nextHandle)
            /\ nextHandle' = nextHandle + 1
            /\ model' = [model EXCEPT ![h] = nextHandle]
            /\ trace' = [trace EXCEPT ![h] = Append(@, <<"load", k>>)]
            /\ pc' = [pc EXCEPT ![h] = AfterAcquire(req[h])]
            /\ last' = NoEvent
            /\ UNCHANGED resp
       ELSE /\ LoadFailure(k)
            /\ trace' = [trace EXCEPT ![h] =
                            IF k \in MODELS THEN Append(@, <<"load", k>>) ELSE @]
            /\ last' = IF k \in MODELS THEN <<"load failed", k>> ELSE last
            /\ resp' = [resp EXCEPT ![h] = "unhandled"]
            /\ pc' = [pc EXCEPT ![h] = "returned"]
            /\ UNCHANGED << nextHandle, model >>
    /\ UNCHANGED << MODELS, last_access_time, now, req, entry, mon,
                    tempFiles, orphans, disposals >>

\* voice_clone, lines 239-241: the upload is copied to a
\* NamedTemporaryFile(delete=False), outside the try/finally.
\* o = "ok":     the file is created and filled.
\* o = "fail":   the file is created and shutil.copyfileobj raises; the
\*               `with` closes the file and does not delete it.
\* o = "nofile": NamedTemporaryFile itself raises.
Stage(h, o) ==
    /\ pc[h] = "stage"
    /\ tempFiles' = IF o = "nofile" THEN tempFiles ELSE tempFiles \cup {h}
    /\ IF o = "ok"
       THEN /\ pc' = [pc EXCEPT ![h] = "invoke"]
            /\ UNCHANGED resp
       ELSE /\ resp' = [resp EXCEPT ![h] = "unhandled"]
            /\ pc' = [pc EXCEPT ![h] = "returned"]
    /\ UNCHANGED << MODELS, active_model, active_model_name, last_access_time,
                    now, req, model, entry, trace, mon, last, orphans,
                    alive, disposals, nextHandle >>

\* The try block of the handler: model.generate_*, process_audio_output and
\* sf.write; any exception becomes HTTPException(500).  voice_clone removes
\* its staged file in `finally`.
\* Faulty variant: a failed invocation unloads the model.
Invoke_EvictOnError(h, o) ==
    /\ pc[h] = "invoke"
    /\ resp' = [resp EXCEPT ![h] = IF o = "ok" THEN "200" ELSE "500"]
    /\ pc' = [pc EXCEPT ![h] = "returned"]
    /\ tempFiles' = tempFiles \ {h}
    /\ IF o = "ok"
       THEN UNCHANGED << active_model, active_model_name, alive, disposals >>
       ELSE unload_model("ok")
    /\ UNCHANGED << MODELS, last_access_time, now, req, model, entry, trace,
                    mon, last, orphans, nextHandle >>

Invoke(h, o) ==
    /\ pc[h] = "invoke"
    /\ resp' = [resp EXCEPT ![h] = IF o = "ok" THEN "200" ELSE "500"]
    /\ pc' = [pc EXCEPT ![h] = "returned"]
    /\ tempFiles' = tempFiles \ {h}
    /\ UNCHANGED << MODELS, active_model, active_model_name, last_access_time,
                    now, req, model, entry, trace, mon, last, orphans,
                    alive, disposals, nextHandle >>

\* The handler's frame is gone and the response is sent: the event loop is
\* free again.
Return(h) ==
    /\ pc[h] = "returned"
    /\ pc' = [pc EXCEPT ![h] = "idle"]
    /\ req' = [req EXCEPT ![h] = NoReq]
    /\ model' = [model EXCEPT ![h] = NoHandle]
    /\ resp' = [resp EXCEPT ![h] = "none"]
    /\ entry' = [entry EXCEPT ![h] = NoEntry]
    /\ trace' = [trace EXCEPT ![h] = << >>]
    /\ orphans' = (orphans \/ h \in tempFiles)
    /\ tempFiles' = tempFiles \ {h}
    /\ UNCHANGED << MODELS, active_model, active_model_name, last_access_time,
                    now, mon, last, alive, disposals, nextHandle >>

\* ------------------------------------------------------ inactivity_monitor
\* Faulty variant: `>=` for `>`.
Idle_NonStrict == active_model # NoHandle /\ now - last_access_time >= UNLOAD_TIMEOUT

Idle == active_model # NoHandle /\ now - last_access_time > UNLOAD_TIMEOUT

\* One pass of the `while True` body, once asyncio.sleep(10) has elapsed
\* and the event loop is free; the task then sleeps again.  There is no
\* try/except in the loop: an exception of unload_model ends the task
\* created by startup_event.
Sweep(o) ==
    /\ LoopFree
    /\ mon = "due"
    /\ IF Idle
       THEN /\ unload_model(o)
            /\ IF UnloadRaises(o)
               THEN /\ mon' = "dead"
                    /\ last' = <<"sweep", "failed">>
               ELSE /\ mon' = "sleep"
                    /\ last' = <<"sweep", "evicted">>
       ELSE /\ mon' = "sleep"
            /\ last' = <<"sweep", "noop">>
            /\ UNCHANGED << active_model, active_model_name, alive, disposals >>
    /\ UNCHANGED << MODELS, last_access_time, now, pc, req, model, resp, entry,
                    trace, tempFiles, orphans, nextHandle >>

\* ------------------------------------------------------------------- clock
\* time.time() advances by one sleep period, also while a load or an
\* invocation is running; a sleeping inactivity_monitor becomes due.
Tick ==
    /\ now + SLEEP <= MaxTime
    /\ now' = now + SLEEP
    /\ mon' = IF mon = "sleep" THEN "due" ELSE mon
    /\ UNCHANGED << MODELS, active_model, active_model_name, last_access_time,
                    pc, req, model, resp, entry, trace, last, tempFiles,
                    orphans, alive, disposals, nextHandle >>

Next ==
    \/ \E h \in Handlers, r \in Requests : Accept(h, r)
    \/ \E h \in Handlers : Start(h)
    \/ \E h \in Handlers, o \in UnloadOutcomes : Unload(h, o)
    \/ \E h \in Handlers, o \in Outcomes : Load(h, o)
    \/ \E h \in Handlers, o \in StageOutcomes : Stage(h, o)
    \/ \E h \in Handlers, o \in Outcomes : Invoke(h, o)
    \/ \E h \in Handlers : Return(h)
    \/ \E o \in UnloadOutcomes : Sweep(o)
    \/ Tick

Spec == Init /\ [][Next]_vars

TypeOK ==
    /\ MODELS \in Configs
    /\ active_model \in 0 .. MaxLoads
    /\ now \in 0 .. MaxTime
    /\ last_access_time \in 0 .. MaxTime
    /\ mon \in {"sleep", "due", "dead"}
    /\ nextHandle \in 1 .. MaxLoads + 1
    /\ Cardinality({ h \in Handlers : pc[h] \notin {"idle", "ready"} }) <= 1

\* ================================================================== claims
K(h) == KeyOf(req[h])

\* get_or_load_model has returned a handle to h and h has not finished.
Acquired(h) == pc[h] \in {"stage", "invoke"}

\* h's invocation on its handle has returned, with a result or an error.
Invoked(h) == pc[h] = "returned" /\ resp[h] \in {"200", "500"}

\* h's get_or_load_model call found another resident in the slot.
Swapping(h) == entry[h].model # NoHandle /\ entry[h].name # K(h)

\* h's get_or_load_model call found its own key resident.
Hit(h) == entry[h].model # NoHandle /\ entry[h].name = K(h)

\* h's get_or_load_model call found the slot empty.
Miss(h) ==
    /\ pc[h] \in {"load", "stage", "invoke", "returned"}
    /\ resp[h] # "400"
    /\ entry[h].model = NoHandle

LoadEvents(t) == { i \in DOMAIN t : t[i][1] = "load" }

SlotEmpty == active_model = NoHandle /\ active_model_name = None

\* C1 - single residency: at most one handle is loaded and not yet
\* released, in every state of every interleaving of handlers and sweeper;
\* and once an acquisition has completed, its key is the resident one.
C1_SingleResidency ==
    /\ Cardinality(alive) <= 1
    /\ \A h \in Handlers :
         (Acquired(h) \/ Invoked(h)) => active_model_name = K(h)

\* A request has swapped B in for A while a request for A is waiting.
C1_Witness ==
    \E h, g \in Handlers :
        /\ h # g
        /\ pc[h] = "invoke"
        /\ Swapping(h)
        /\ pc[g] = "ready"
        /\ K(g) = entry[h].name

\* C2 - exclusivity while in use: from the return of get_or_load_model to
\* the return of the invocation, the handler's handle stays the resident,
\* loaded handle, whatever requests are waiting and whether or not the
\* sweeper is due.
C2_ExclusiveWhileInUse ==
    \A h \in Handlers :
        (Acquired(h) \/ Invoked(h)) =>
            /\ model[h] # NoHandle
            /\ active_model = model[h]
            /\ <<model[h], K(h)>> \in alive

\* A handler is using its handle while the sweeper is due, the resident
\* counts as idle, and a request for another key is waiting.
C2_Witness ==
    \E h, g \in Handlers :
        /\ Acquired(h)
        /\ mon = "due"
        /\ Idle
        /\ pc[g] = "ready"
        /\ K(g) \in MODELS
        /\ K(g) # K(h)

\* C3 - unknown key leaves the slot untouched: a get_or_load_model call
\* with a key that is not in MODELS calls no loader, disposes nothing and
\* leaves key, handle and timestamp as they were at the call.
C3_UnknownKeyUntouched ==
    \A h \in Handlers :
        (pc[h] \in {"unload", "load", "returned"} /\ resp[h] # "400"
            /\ K(h) \notin MODELS) =>
            /\ trace[h] = << >>
            /\ slot = << entry[h].name, entry[h].model, entry[h].time >>

\* C4 - slot invariant: the slot is empty (no handle, no key) or fully
\* populated (a key, and the live handle that was loaded for that key).
C4_SlotInvariant ==
    \/ SlotEmpty
    \/ /\ active_model # NoHandle
       /\ active_model_name \in MODELS
       /\ <<active_model, active_model_name>> \in alive

\* A swap whose load failed has returned its error.
C4_Witness ==
    \E h \in Handlers :
        /\ pc[h] = "returned"
        /\ resp[h] = "unhandled"
        /\ Swapping(h)
        /\ LoadEvents(trace[h]) # {}
        /\ SlotEmpty

\* C5 - swap correctness: a call for B that found A resident has disposed
\* A's handle, once, before the loader is invoked; when the load has
\* succeeded the call has invoked the loader once, for B, and the slot
\* holds B with the new handle and nothing else is loaded.
C5_SwapCorrectness ==
    \A h \in Handlers :
        Swapping(h) =>
            /\ pc[h] = "load" =>
                 /\ trace[h] = << <<"dispose", entry[h].model>> >>
                 /\ alive = {}
            /\ Acquired(h) =>
                 /\ trace[h] = << <<"dispose", entry[h].model>>, <<"load", K(h)>> >>
                 /\ active_model_name = K(h)
                 /\ active_model = model[h]
                 /\ model[h] # entry[h].model
                 /\ alive = { <<model[h], K(h)>> }

C5_Witness ==
    \E h \in Handlers : Swapping(h) /\ Acquired(h)

\* C6 - reuse: an acquisition that finds its key resident returns the
\* resident handle with no loader call and no disposal; any other
\* successful acquisition has invoked the loader exactly once.
C6_Reuse ==
    \A h \in Handlers :
        Acquired(h) =>
            IF Hit(h)
            THEN trace[h] = << >> /\ model[h] = entry[h].model
            ELSE Cardinality(LoadEvents(trace[h])) = 1

\* A hit, with a second request for the same key waiting.
C6_Witness ==
    \E h, g \in Handlers :
        /\ h # g
        /\ Acquired(h)
        /\ Hit(h)
        /\ pc[g] = "ready"
        /\ K(g) = K(h)

\* C7 - idle eviction: a sweep tick that finds a resident idle for longer
\* than UNLOAD_TIMEOUT disposes the handle and leaves the slot empty.
C7_IdleEviction ==
    [][ (mon = "due" /\ mon' # "due" /\ Idle) => (SlotEmpty' /\ alive' = {}) ]_vars

\* C8 - failed load leaves no residue: a load that fails on an empty slot
\* propagates its error and leaves the slot empty with nothing loaded; and
\* every call on an empty slot invokes the loader for its key, also when
\* the previous load of that key failed.
C8_FailedLoadNoResidue ==
    \A h \in Handlers :
        (Miss(h) /\ K(h) \in MODELS) =>
            /\ (pc[h] = "returned" /\ model[h] = NoHandle) =>
                 /\ resp[h] = "unhandled"
                 /\ SlotEmpty
                 /\ alive = {}
            /\ pc[h] # "load" => trace[h] = << <<"load", K(h)>> >>

\* The load of K failed, and the next call for K has loaded it.
C8_Witness ==
    \E h \in Handlers :
        /\ Acquired(h)
        /\ Miss(h)
        /\ entry[h].last = <<"load failed", K(h)>>
        /\ active_model_name = K(h)

\* C9 - disposal failure during a swap does not block progress: once the
\* unload step of a swapping call is over, the old resident is out of the
\* slot and the call goes on to load its key.
C9_DisposalNonFatal ==
    \A h \in Handlers :
        (Swapping(h) /\ pc[h] # "unload" /\ K(h) \in MODELS) =>
            /\ active_model # entry[h].model
            /\ pc[h] = "returned" => LoadEvents(trace[h]) # {}

\* C10 - sweeper liveness under failure: no tick ends the
\* inactivity_monitor task.
C10_SweeperSurvives == mon # "dead"

\* C11 - admission control: at most one invocation of generate_* is in
\* progress at any instant, whatever keys the accepted requests target.
C11_OneInference ==
    Cardinality({ h \in Handlers : pc[h] = "invoke" }) <= 1

\* An inference has been running for a while and another accepted request,
\* with a known key, is waiting for the event loop.
C11_Witness ==
    \E h, g \in Handlers :
        /\ h # g
        /\ pc[h] = "invoke"
        /\ now > last_access_time
        /\ pc[g] = "ready"
        /\ K(g) \in MODELS

\* C12 - timestamp monotonicity: with a non-decreasing clock
\* last_access_time never decreases, and only the entry of a
\* get_or_load_model call writes it, with the clock's value: no sweep
\* tick, unload or load does.
C12_TimestampMonotonic ==
    [][ /\ last_access_time' >= last_access_time
        /\ last_access_time' # last_access_time =>
             /\ last_access_time' = now
             /\ \E h \in Handlers : pc[h] = "ready" /\ pc'[h] # "ready" ]_vars

\* A hit has recorded a later timestamp than the acquisition before it.
C12_Witness ==
    \E h \in Handlers :
        /\ Acquired(h)
        /\ Hit(h)
        /\ last_access_time > entry[h].time

\* C13 - invocation failure does not affect residency: the step in which
\* the invocation (or the encoding of its output) fails answers 500 and
\* leaves key, handle and timestamp as they were, so that the next call for
\* the same key is a hit.
C13_InvocationFailureKeepsSlot ==
    [][ \A h \in Handlers :
          (pc[h] = "invoke" /\ pc'[h] = "returned" /\ resp'[h] # "200") =>
              /\ resp'[h] = "500"
              /\ slot' = slot
              /\ alive' = alive
              /\ active_model' = model[h]
              /\ (active_model_name' = K(h) /\ active_model' # NoHandle) ]_vars

\* An invocation has failed while a request for the same key is waiting.
C13_Witness ==
    \E h, g \in Handlers :
        /\ pc[h] = "returned"
        /\ resp[h] = "500"
        /\ pc[g] = "ready"
        /\ K(g) = K(h)

\* C14 - unknown size is rejected at the HTTP boundary: a custom-voice or
\* voice-clone request whose key is not in MODELS is answered 400 in the
\* step that resumes it, with no get_or_load_model call: no load, no
\* disposal, no timestamp write, no temporary file.
C14_UnknownSizeRejected ==
    [][ \A h \in Handlers :
          (pc[h] = "ready" /\ pc'[h] # "ready"
              /\ req[h].endpoint \in {"custom", "clone"}
              /\ K(h) \notin MODELS) =>
              /\ pc'[h] = "returned"
              /\ resp'[h] = "400"
              /\ slot' = slot
              /\ alive' = alive
              /\ disposals' = disposals
              /\ nextHandle' = nextHandle
              /\ trace'[h] = << >>
              /\ tempFiles' = tempFiles ]_vars

\* A voice-clone request was rejected while a model was resident and its
\* timestamp in the past.
C14_Witness ==
    \E h \in Handlers :
        /\ pc[h] = "returned"
        /\ resp[h] = "400"
        /\ req[h].endpoint = "clone"
        /\ active_model # NoHandle
        /\ now > last_access_time

\* C15 - uniform 500: a request that passed key validation is answered
\* with the file or with the handler's HTTPException(500); no exception
\* leaves the handler unhandled.
C15_Uniform500 ==
    \A h \in Handlers :
        (pc[h] = "returned" /\ resp[h] # "400") => resp[h] \in {"200", "500"}

\* C16 - the staged reference audio never outlives the call: when a
\* handler has returned or raised, its temporary file is gone.
C16_TempFileRemoved ==
    /\ ~orphans
    /\ \A h \in Handlers : pc[h] = "returned" => h \notin tempFiles

\* C17 - timestamp at population: the step that populates the slot after
\* a successful load leaves last_access_time at the clock's value.
C17_TimestampAtPopulation ==
    [][ \A h \in Handlers :
          (pc[h] = "load" /\ pc'[h] \in {"stage", "invoke"}) =>
              last_access_time' = now' ]_vars

\* C18 - sweep is a no-op unless strictly idle: a tick that finds the slot
\* empty, or the resident idle for UNLOAD_TIMEOUT or less, changes neither
\* key, handle nor timestamp, disposes nothing, loads nothing, and the
\* monitor sleeps again.
C18_SweepNoOp ==
    [][ (mon = "due" /\ mon' # "due"
            /\ (active_model = NoHandle
                   \/ now - last_access_time <= UNLOAD_TIMEOUT)) =>
            /\ slot' = slot
            /\ alive' = alive
            /\ disposals' = disposals
            /\ nextHandle' = nextHandle
            /\ mon' = "sleep" ]_vars

\* A tick has just left alone a resident idle for exactly UNLOAD_TIMEOUT.
C18_Witness ==
    /\ last = <<"sweep", "noop">>
    /\ mon = "sleep"
    /\ active_model # NoHandle
    /\ now - last_access_time = UNLOAD_TIMEOUT

\* h's loader call failed.
LoadFailed(h) ==
    /\ pc[h] = "returned"
    /\ model[h] = NoHandle
    /\ LoadEvents(trace[h]) # {}

\* C19 - failed load during a swap: when the load of B fails after A was
\* found resident, A's handle has been disposed once and is not restored,
\* the slot is empty when the error reaches the caller, and a call for A
\* or for B would go to the loader.
C19_FailedSwapLeavesEmpty ==
    \A h \in Handlers :
        (Swapping(h) /\ LoadFailed(h)) =>
            /\ trace[h] = << <<"dispose", entry[h].model>>, <<"load", K(h)>> >>
            /\ resp[h] = "unhandled"
            /\ SlotEmpty
            /\ alive = {}
            /\ EnterGetOrLoad(entry[h].name) = "load"
            /\ EnterGetOrLoad(K(h)) = "load"

\* The load of B has failed after A was disposed, and a request for A is
\* waiting.
C19_Witness ==
    \E h, g \in Handlers :
        /\ Swapping(h)
        /\ LoadFailed(h)
        /\ pc[g] = "ready"
        /\ K(g) = entry[h].name

\* The handles the loader has returned.
Loaded == 1 .. (nextHandle - 1)

Disposed == { disposals[i] : i \in DOMAIN disposals }

\* C20 - handle accounting: every disposed handle was loaded and is
\* disposed once; loads minus disposals is 1 when the slot is populated
\* and 0 when it is empty; the handles still loaded are exactly the loaded
\* ones that were not disposed, so none left the slot undisposed.
C20_HandleAccounting ==
    /\ \A i, j \in DOMAIN disposals : i # j => disposals[i] # disposals[j]
    /\ Disposed \subseteq Loaded
    /\ (nextHandle - 1) - Len(disposals) = IF active_model = NoHandle THEN 0 ELSE 1
    /\ { a[1] : a \in alive } = Loaded \ Disposed
    /\ active_model # NoHandle => active_model \notin Disposed

\* Two handles were loaded and disposed, the second one by the sweeper.
C20_Witness ==
    /\ Len(disposals) = 2
    /\ last = <<"sweep", "evicted">>

====
